---- MODULE Spec2Model ----
(***************************************************************************)
(* Step orchestration core of gaode_agent: placeholder resolution of       *)
(* StepContext (utils/step_context.py) and the plan execution loop of      *)
(* Agent.run / Agent.execute_step (agent_self/agent.py), with the          *)
(* MemoryManager (agent_memory/memory.py) the run remembers its messages   *)
(* in and the request handler of main_gradio.py that starts a run.         *)
(*                                                                         *)
(* Text that the code inspects character by character (the part of a       *)
(* placeholder after "_result") is a sequence of one-character strings.    *)
(* JSON-like values are tagged records:                                    *)
(*   [t |-> "null"], [t |-> "str", s |-> ..], [t |-> "num", n |-> ..],     *)
(*   [t |-> "list", l |-> <<..>>], [t |-> "dict", d |-> [keys -> values]]  *)
(* where a dict key is a sequence of characters.                           *)
(***************************************************************************)
EXTENDS Integers, Sequences, FiniteSets, TLC

VARIABLES
    \* ---- one plan execution (Agent.run) ----
    steps_data,      \* raw descriptors returned by the planner (plan_tasks: steps_data);
                     \* <<>> also when the intent needs no plan
    strategy,        \* ExecutionStrategy of this run
    steps,           \* validated plan (List[TaskStep]); <<>> before planning / when rejected
    pc,              \* position of the run coroutine
    i,               \* loop index of "for i, step in enumerate(steps)"
    step_context,    \* the StepContext of this run: [results, metadata, step_count]
    steps_results,   \* list of (resolved_step, result)
    resolved_step,   \* the step handed to execute_step
    invocations,     \* tool calls started so far: <<[step, tool, parameters]>>
    out,             \* chunks yielded to the caller
    extracted,       \* manifest built by _extract_key_information, or NoManifest
    failed,          \* history: <<[step, result]>> of every step whose success was False
    returned,        \* history: what each invoked tool returned, by step index
    \* ---- one call of the regex replacer (StepContext.replace_placeholders) ----
    tail,            \* text between "{step_N_result" and "}"
    step_idx,        \* N
    current_step,    \* index of the step being resolved
    ctx_results,     \* self.results at the time of the call
    replaced,        \* what replacer produced ("pending" before the call)
    replaced_again,  \* what replacer produces when the same call is made once more
    \* ---- one call of StepContext.replace_placeholders on a parameter mapping ----
    raw_params,      \* the mapping handed in (params)
    replaced_params, \* what the call returns or raises ("pending" before the call)
    \* ---- several Agent.run coroutines of one process ----
    sessions,        \* per session: the locals of its run coroutine
    contexts,        \* the StepContext objects created so far, by identity
    environ,         \* os.environ["CURRENT_USER_ID"] of the process ("" when unset)
    \* ---- the MemoryManager ----
    memory_store,    \* the history file of each user that has one, by user id
    temp_clear_flags, \* self.temp_clear_flags
    loaded,          \* what the last call returned, when it was load_memory
    history_log      \* per user, the messages handed to update_history since the
                     \* last clear_context (MemoryManager specification only)

evars == <<steps_data, strategy, steps, pc, i, step_context, steps_results,
           resolved_step, invocations, out, extracted, failed, returned>>
rvars == <<tail, step_idx, current_step, ctx_results, replaced, replaced_again,
           raw_params, replaced_params>>
cvars == <<sessions, contexts, environ>>
\* the fields of the MemoryManager that Agent.run never touches, and all of them
fvars == <<temp_clear_flags, loaded, history_log>>
mvars == <<memory_store, fvars>>
vars  == <<evars, rvars, cvars, mvars>>

----------------------------------------------------------------------------
(* Characters and the two guard regexes of resolve_path                     *)

Letters == {"a","b","c","d","e","f","g","h","i","j","k","l","m","n","o","p",
            "q","r","s","t","u","v","w","x","y","z","_"}
Digits == {"0","1","2","3","4","5","6","7","8","9"}
WordChars == Letters \cup Digits
Spaces == {" "}

\* re.search(r'\.[A-Za-z_]\w*\s*\(', path) matching at position p
MethodCallAt(path, p) ==
    /\ path[p] = "."
    /\ p + 1 <= Len(path)
    /\ path[p + 1] \in Letters
    /\ \E q \in (p + 2)..Len(path) :
          /\ path[q] = "("
          /\ \E m \in (p + 1)..(q - 1) :
                /\ \A k \in (p + 2)..m : path[k] \in WordChars
                /\ \A k \in (m + 1)..(q - 1) : path[k] \in Spaces

HasMethodCall(path) == \E p \in 1..Len(path) : MethodCallAt(path, p)

\* re.search(r'[\*/%]|(?<!e)[\+\-]|[<>]', path)
HasArithmetic(path) ==
    \E p \in 1..Len(path) :
        \/ path[p] \in {"*", "/", "%"}
        \/ path[p] \in {"+", "-"} /\ (p = 1 \/ path[p - 1] # "e")
        \/ path[p] \in {"<", ">"}

\* parts = [p for p in re.split(r'\.|\[|\]', path) if p]
RECURSIVE SplitPath(_, _, _)
SplitPath(path, cur, acc) ==
    IF path = <<>>
    THEN IF cur = <<>> THEN acc ELSE Append(acc, cur)
    ELSE IF Head(path) \in {".", "[", "]"}
         THEN SplitPath(Tail(path), <<>>, IF cur = <<>> THEN acc ELSE Append(acc, cur))
         ELSE SplitPath(Tail(path), Append(cur, Head(path)), acc)

IsDigit(part) == part # <<>> /\ \A k \in 1..Len(part) : part[k] \in Digits

DigitVal(c) ==
    CASE c = "0" -> 0 [] c = "1" -> 1 [] c = "2" -> 2 [] c = "3" -> 3 [] c = "4" -> 4
      [] c = "5" -> 5 [] c = "6" -> 6 [] c = "7" -> 7 [] c = "8" -> 8 [] c = "9" -> 9

RECURSIVE IntOf(_)
IntOf(part) ==
    IF part = <<>> THEN 0
    ELSE IntOf(SubSeq(part, 1, Len(part) - 1)) * 10 + DigitVal(part[Len(part)])

----------------------------------------------------------------------------
(* Values                                                                   *)

Null == [t |-> "null"]
VStr(s) == [t |-> "str", s |-> s]
VNum(n) == [t |-> "num", n |-> n]
VList(l) == [t |-> "list", l |-> l]
VDict(d) == [t |-> "dict", d |-> d]
VAttr(v, name) == [t |-> "attr", of |-> v, name |-> name]

IsDict(v) == v.t = "dict"
IsList(v) == v.t = "list"
IsStr(v) == v.t = "str"
HasKey(v, k) == IsDict(v) /\ k \in DOMAIN v.d

K_results == <<"r","e","s","u","l","t","s">>
K_paths == <<"p","a","t","h","s">>
K_pois == <<"p","o","i","s">>
K_routes == <<"r","o","u","t","e","s">>
K_location == <<"l","o","c","a","t","i","o","n">>
K_formatted_address == <<"f","o","r","m","a","t","t","e","d","_","a","d","d","r","e","s","s">>
K_province == <<"p","r","o","v","i","n","c","e">>
K_city == <<"c","i","t","y">>
K_district == <<"d","i","s","t","r","i","c","t">>
K_steps == <<"s","t","e","p","s">>
K_distance == <<"d","i","s","t","a","n","c","e">>
K_duration == <<"d","u","r","a","t","i","o","n">>
K_lng == <<"l","n","g">>
K_error == <<"e","r","r","o","r">>
K_raw == <<"r","a","w">>
K_success == <<"s","u","c","c","e","s","s">>
K_forecasts == <<"f","o","r","e","c","a","s","t","s">>
K_route == <<"r","o","u","t","e">>
K_image_urls == <<"i","m","a","g","e","_","u","r","l","s">>
K_class == <<"_","_","c","l","a","s","s","_","_">>
K_upper == <<"u","p","p","e","r">>

\* hasattr(current, part) for a current that is not a dict
AttrNames(v) ==
    CASE v.t = "str" -> {K_class, K_upper}
      [] OTHER -> {K_class}

----------------------------------------------------------------------------
(* StepContext.replace_placeholders: resolve_path                           *)

Err(kind) == [t |-> "err", kind |-> kind]
IsErr(x) == x.t = "err"

AnyKey(obj, keys) == \E k \in keys : k \in DOMAIN obj.d

\* the "results / paths / pois" compatibility wrapping applied to the payload
CompatWrap(obj, first_key) ==
    IF ~(IsDict(obj) /\ first_key \in {K_results, K_paths, K_pois} /\ first_key \notin DOMAIN obj.d)
    THEN obj
    ELSE IF first_key = K_results
    THEN IF HasKey(obj, K_pois) /\ IsList(obj.d[K_pois])
         THEN VDict(K_results :> obj.d[K_pois])
         ELSE IF AnyKey(obj, {K_location, K_formatted_address, K_province, K_city, K_district})
         THEN VDict(K_results :> VList(<<obj>>))
         ELSE obj
    ELSE IF first_key = K_paths
    THEN IF HasKey(obj, K_routes) /\ IsList(obj.d[K_routes])
         THEN VDict(K_paths :> obj.d[K_routes])
         ELSE IF AnyKey(obj, {K_steps, K_distance, K_duration})
         THEN VDict(K_paths :> VList(<<obj>>))
         ELSE obj
    ELSE IF HasKey(obj, K_results) /\ IsList(obj.d[K_results])
         THEN VDict(K_pois :> obj.d[K_results])
         ELSE obj

\* variant: an index past the end yields the last element
WalkPart_ClampIndex(current, part) ==
    IF IsDigit(part)
    THEN IF IsList(current) /\ current.l # <<>>
         THEN current.l[IF IntOf(part) < Len(current.l) THEN IntOf(part) + 1 ELSE Len(current.l)]
         ELSE Null
    ELSE IF IsDict(current)
         THEN IF part \in DOMAIN current.d THEN current.d[part] ELSE Null
         ELSE IF part \in AttrNames(current) THEN VAttr(current, part) ELSE Null

\* one iteration of "for i, part in enumerate(parts)"; Null stands for "return None"
WalkPart(current, part) ==
    IF IsDigit(part)
    THEN IF IsList(current) /\ IntOf(part) < Len(current.l)
         THEN current.l[IntOf(part) + 1]
         ELSE Null
    ELSE IF IsDict(current)
         THEN IF part \in DOMAIN current.d THEN current.d[part] ELSE Null
         ELSE IF part \in AttrNames(current) THEN VAttr(current, part) ELSE Null

RECURSIVE Walk(_, _)
Walk(current, parts) ==
    IF parts = <<>> THEN current
    ELSE LET nxt == WalkPart(current, Head(parts))
         IN IF nxt = Null THEN Null ELSE Walk(nxt, Tail(parts))

resolve_path(obj, path) ==
    IF path = <<>> THEN obj
    ELSE IF HasMethodCall(path) THEN Err("unsupported_method_call")
    ELSE IF HasArithmetic(path) THEN Err("unsupported_expression")
    ELSE LET parts == SplitPath(path, <<>>, <<>>)
         IN IF parts = <<>> THEN obj
            ELSE Walk(CompatWrap(obj, parts[1]), parts)

----------------------------------------------------------------------------
(* StepContext.replace_placeholders: replacer                               *)

EmptyText == [t |-> "text", fmt |-> "lit", s |-> ""]
\* str(x): a str is its own text, any other value is rendered by Python's str()
StrOf(v) == IF IsStr(v) THEN [t |-> "text", fmt |-> "lit", s |-> v.s]
            ELSE [t |-> "text", fmt |-> "str", of |-> v]
JsonDumps(v) == [t |-> "text", fmt |-> "json", of |-> v]
\* the characters str() produces for a text: the str() of a bound method (any
\* attribute but __class__) names the address of the object it is bound to,
\* "<built-in method upper of str object at 0x..>"; every other text is as it is
AtAddress(text, addr) ==
    IF text.t = "text" /\ text.fmt = "str" /\ text.of.t = "attr" /\ text.of.name # K_class
    THEN [t |-> "text", fmt |-> "method_repr", of |-> text.of, at |-> addr]
    ELSE text
\* text that re.sub leaves alone because the pattern does not match it
Unmatched(idx, tl) == [t |-> "text", fmt |-> "unmatched", idx |-> idx, tail |-> tl]

\* pattern = r'\{step_(\d+)_result(?:\.([^\}]+))?\}' applied to "{step_N_result" + tl + "}"
PatternMatches(tl) == tl = <<>> \/ (Len(tl) >= 2 /\ tl[1] = ".")
\* match.group(2); <<>> stands for None
Group2(tl) == IF tl = <<>> THEN <<>> ELSE Tail(tl)

GetResult(res, idx) == IF idx \in DOMAIN res THEN res[idx] ELSE Null

\* variant: only later steps are refused, the current step may reference itself
replacer_AllowSelf(res, cur_step, idx, path) ==
    IF idx > cur_step THEN Err("forward_reference")
    ELSE LET result == GetResult(res, idx)
         IN IF result = Null THEN EmptyText
            ELSE IF path # <<>>
            THEN LET resolved == resolve_path(result, path)
                 IN IF IsErr(resolved) THEN resolved
                    ELSE IF resolved # Null THEN StrOf(resolved)
                    ELSE EmptyText
            ELSE IF IsDict(result) \/ IsList(result) THEN JsonDumps(result)
            ELSE StrOf(result)

replacer(res, cur_step, idx, path) ==
    IF idx >= cur_step THEN Err("forward_reference")
    ELSE LET result == GetResult(res, idx)
         IN IF result = Null THEN EmptyText
            ELSE IF path # <<>>
            THEN LET resolved == resolve_path(result, path)
                 IN IF IsErr(resolved) THEN resolved
                    ELSE IF resolved # Null THEN StrOf(resolved)
                    ELSE EmptyText
            ELSE IF IsDict(result) \/ IsList(result) THEN JsonDumps(result)
            ELSE StrOf(result)

\* variant: a reference to an earlier step without a recorded result raises
SubBrace_MissingRaises(res, cur_step, idx, tl) ==
    IF PatternMatches(tl)
    THEN IF idx < cur_step /\ idx \notin DOMAIN res THEN Err("missing_step_result")
         ELSE replacer(res, cur_step, idx, Group2(tl))
    ELSE Unmatched(idx, tl)

\* re.sub(pattern, replacer, value) on a text holding one brace expression
SubBrace(res, cur_step, idx, tl) ==
    IF PatternMatches(tl) THEN replacer(res, cur_step, idx, Group2(tl))
    ELSE Unmatched(idx, tl)

----------------------------------------------------------------------------
(* StepContext.replace_placeholders: replace_value over a parameter mapping *)
(* A parameter value is [t |-> "pstr", toks |-> <<token, ..>>] (a string cut *)
(* into literal text and brace expressions), [t |-> "pdict", items |-> ..]  *)
(* (insertion-ordered), [t |-> "plist", l |-> ..] or any other value.        *)

Lit(s) == [k |-> "lit", s |-> s]
Brace(idx, tl) == [k |-> "brace", idx |-> idx, tail |-> tl]
PStr(toks) == [t |-> "pstr", toks |-> toks]
PDict(items) == [t |-> "pdict", items |-> items]
PList(l) == [t |-> "plist", l |-> l]
Item(key, v) == [key |-> key, v |-> v]

\* the exception that ends a left-to-right evaluation: the first one raised
FirstErr(seq) ==
    seq[CHOOSE k \in 1..Len(seq) : IsErr(seq[k]) /\ \A j \in 1..(k - 1) : ~IsErr(seq[j])]
AnyErr(seq) == \E k \in 1..Len(seq) : IsErr(seq[k])

SubToken(res, cur_step, tok) ==
    IF tok.k = "lit" THEN [t |-> "text", fmt |-> "lit", s |-> tok.s]
    ELSE SubBrace(res, cur_step, tok.idx, tok.tail)

\* variant: sequences are returned as they are, only mappings are descended
RECURSIVE replace_value_Shallow(_, _, _)
replace_value_Shallow(res, cur_step, value) ==
    CASE value.t = "pstr" ->
            LET texts == [k \in 1..Len(value.toks) |-> SubToken(res, cur_step, value.toks[k])]
            IN IF AnyErr(texts) THEN FirstErr(texts) ELSE [t |-> "rstr", texts |-> texts]
      [] value.t = "pdict" ->
            LET vals == [k \in 1..Len(value.items) |->
                            replace_value_Shallow(res, cur_step, value.items[k].v)]
            IN IF AnyErr(vals) THEN FirstErr(vals)
               ELSE PDict([k \in 1..Len(value.items) |-> Item(value.items[k].key, vals[k])])
      [] OTHER -> value

RECURSIVE replace_value(_, _, _)
replace_value(res, cur_step, value) ==
    CASE value.t = "pstr" ->
            LET texts == [k \in 1..Len(value.toks) |-> SubToken(res, cur_step, value.toks[k])]
            IN IF AnyErr(texts) THEN FirstErr(texts) ELSE [t |-> "rstr", texts |-> texts]
      [] value.t = "pdict" ->
            LET vals == [k \in 1..Len(value.items) |->
                            replace_value(res, cur_step, value.items[k].v)]
            IN IF AnyErr(vals) THEN FirstErr(vals)
               ELSE PDict([k \in 1..Len(value.items) |-> Item(value.items[k].key, vals[k])])
      [] value.t = "plist" ->
            LET vals == [k \in 1..Len(value.l) |-> replace_value(res, cur_step, value.l[k])]
            IN IF AnyErr(vals) THEN FirstErr(vals) ELSE PList(vals)
      [] OTHER -> value

\* returns the replaced parameters, or the ValueError it raises
replace_placeholders(res, params, cur_step) == replace_value(res, cur_step, params)

RECURSIVE Concat(_)
Concat(seqs) == IF seqs = <<>> THEN <<>> ELSE Head(seqs) \o Concat(Tail(seqs))

\* the leaves of a parameter value in the order replace_value visits them: the
\* tokens (or replaced texts) of its strings and its values of other types
RECURSIVE Leaves(_)
Leaves(value) ==
    CASE value.t = "pstr" -> value.toks
      [] value.t = "rstr" -> value.texts
      [] value.t = "pdict" -> Concat([k \in 1..Len(value.items) |-> Leaves(value.items[k].v)])
      [] value.t = "plist" -> Concat([k \in 1..Len(value.l) |-> Leaves(value.l[k])])
      [] OTHER -> <<value>>

IsBrace(leaf) == "k" \in DOMAIN leaf /\ leaf.k = "brace"

----------------------------------------------------------------------------
(* Plan validation: TaskStep construction inside Agent.plan_tasks                   *)
(* A raw descriptor field is Missing, FNull, FStr(s) or FVal(value).        *)

Missing == [f |-> "missing"]
FNull == [f |-> "null"]
FStr(s) == [f |-> "str", s |-> s]
FVal(v) == [f |-> "val", v |-> v]
Descriptor(goal, tool_name, parameters) ==
    [goal |-> goal, tool_name |-> tool_name, parameters |-> parameters]

\* pydantic accepts the descriptor: goal and tool_name are required strings,
\* parameters is a mapping and defaults to {}
Validates(d) ==
    /\ d.goal.f = "str"
    /\ d.tool_name.f = "str"
    /\ \/ d.parameters.f = "missing"
       \/ d.parameters.f = "val" /\ d.parameters.v.t = "pdict"

TaskStep(d) ==
    [goal |-> d.goal.s,
     tool_name |-> d.tool_name.s,
     parameters |-> IF d.parameters.f = "missing" THEN PDict(<<>>) ELSE d.parameters.v]

\* variant: descriptors that fail validation are dropped, the others kept
plan_tasks_KeepValid(data) ==
    LET valid == SelectSeq(data, Validates)
    IN [k \in 1..Len(valid) |-> TaskStep(valid[k])]

\* the list plan_tasks returns: every descriptor as a TaskStep, or [] when
\* steps_data is empty or any TaskStep construction raises
plan_tasks(data) ==
    IF data = <<>> \/ \E k \in 1..Len(data) : ~Validates(data[k])
    THEN <<>>
    ELSE [k \in 1..Len(data) |-> TaskStep(data[k])]

----------------------------------------------------------------------------
(* StepContext: construction and set_result                                 *)

NoResults == [k \in {} |-> Null]
StepContext == [results |-> NoResults, metadata |-> NoResults, step_count |-> 0]

Max(a, b) == IF a >= b THEN a ELSE b

\* metadata keys "step_<i>_location", "step_<i>_address", "step_<i>_distance",
\* "step_<i>_duration" as pairs <<i, name>>
MetadataOf(step_index, result) ==
    LET fields == {<<K_location, "location">>, <<K_formatted_address, "address">>,
                   <<K_distance, "distance">>, <<K_duration, "duration">>}
        present == {f \in fields : HasKey(result, f[1])}
    IN [m \in {<<step_index, f[2]>> : f \in present} |->
            result.d[(CHOOSE f \in present : f[2] = m[2])[1]]]

\* variant: the result is stored under the next index
set_result_NextIndex(ctx, step_index, result) ==
    [results |-> ((step_index + 1) :> result) @@ ctx.results,
     metadata |-> ctx.metadata,
     step_count |-> Max(ctx.step_count, step_index + 2)]

\* variant: the context keeps only the latest result
set_result_KeepLatest(ctx, step_index, result) ==
    [results |-> (step_index :> result),
     metadata |-> MetadataOf(step_index, result),
     step_count |-> Max(ctx.step_count, step_index + 1)]

set_result(ctx, step_index, result) ==
    [results |-> (step_index :> result) @@ ctx.results,
     metadata |-> MetadataOf(step_index, result) @@ ctx.metadata,
     step_count |-> Max(ctx.step_count, step_index + 1)]

----------------------------------------------------------------------------
(* Tool Registry and Agent.execute_step                                     *)

ToolMethods == {"maps_text_search", "maps_weather"}      \* self.tool_methods (MCP)
StandardTools == {"file_tool"}                           \* self.tools beyond the MCP names
UserIdTools == {"visualization_tool", "file_tool"}
DirectionTools == {"maps_direction_driving", "maps_direction_walking",
                   "maps_direction_bicycling", "maps_direction_transit_integrated"}

VBool(b) == [t |-> "bool", b |-> b]
\* a formatted message: template, and the values interpolated into it
Msg(tmpl, about, cause) == [t |-> "msg", tmpl |-> tmpl, about |-> about, cause |-> cause]

\* variant: only the alias is refused, the registry lookup result is not checked
EarlyFailure_AliasOnly(step) ==
    IF step.tool_name = "mcp_tool"
    THEN VDict(K_error :> Msg("invalid_tool_name_mcp_tool", step.tool_name, "alias"))
    ELSE Null

\* what execute_step returns before it awaits anything: the failure result of
\* the "mcp_tool" alias or of a name found in neither registry; Null otherwise
EarlyFailure(step) ==
    IF step.tool_name = "mcp_tool"
    THEN VDict(K_error :> Msg("invalid_tool_name_mcp_tool", step.tool_name, "alias"))
    ELSE IF step.tool_name \in ToolMethods THEN Null
    ELSE IF step.tool_name \notin StandardTools
    THEN Msg("tool_does_not_exist", step.tool_name, "not_registered")
    ELSE Null

Truthy(v) ==
    CASE v.t = "rstr" -> \E k \in 1..Len(v.texts) : v.texts[k] # EmptyText
      [] v.t = "null" -> FALSE
      [] OTHER -> TRUE

\* params = original_params.copy(); params["user_id"] = effective_uid when absent or falsy
InjectUserId(params, uid) ==
    LET has == \E k \in 1..Len(params.items) : params.items[k].key = "user_id"
        ok == \E k \in 1..Len(params.items) :
                  params.items[k].key = "user_id" /\ Truthy(params.items[k].v)
    IN IF ok THEN params
       ELSE IF has
       THEN PDict([k \in 1..Len(params.items) |->
                     IF params.items[k].key = "user_id"
                     THEN Item("user_id", VStr(uid)) ELSE params.items[k]])
       ELSE PDict(Append(params.items, Item("user_id", VStr(uid))))

\* the keyword arguments the tool is called with
CallParams(step, uid) ==
    IF step.tool_name \in ToolMethods THEN step.parameters
    ELSE IF step.tool_name \in UserIdTools THEN InjectUserId(step.parameters, uid)
    ELSE step.parameters

\* json.loads / RobustJSONParser.parse of a tool's text output: the JSON value
\* the text holds, Null when it holds none
JsonText == "{\"e\": 1}"
JsonIn(text) == IF text = JsonText THEN VDict(<<"e">> :> VNum(1)) ELSE Null

\* standard tools: a str result is replaced by its JSON value when it parses
ParsedResult(raw) ==
    IF IsStr(raw) /\ JsonIn(raw.s) # Null THEN JsonIn(raw.s) ELSE raw

\* the value Agent.run hands to set_result for a step result
Recorded(result, success) ==
    IF IsStr(result)
    THEN LET result_dict == JsonIn(result.s)
         IN IF result_dict # Null /\ IsDict(result_dict) /\ DOMAIN result_dict.d # {}
            THEN result_dict
            ELSE VDict((K_raw :> result) @@ (K_success :> VBool(success)))
    ELSE IF IsDict(result) THEN result
    ELSE VDict((K_raw :> StrOf(result)) @@ (K_success :> VBool(success)))

----------------------------------------------------------------------------
(* Agent._extract_key_information                                           *)

HtmlPath == "user_data/u1/plan.html"
ErrorText == "cuowu: 'user_id' is required"
\* result.startswith("cuowu"), ".html" in result, result.endswith(".html")
StartsWithError(text) == text = ErrorText
MentionsHtml(text) == text = HtmlPath
EndsWithHtml(text) == text = HtmlPath

Take(seq, n) == SubSeq(seq, 1, IF Len(seq) < n THEN Len(seq) ELSE n)

EmptyManifest ==
    [weather_data |-> <<>>, file_paths |-> <<>>, map_paths |-> <<>>,
     routes |-> <<>>, pois |-> <<>>, images |-> <<>>]

\* variant: the maps_text_search branch is missing
ExtractStep_NoPois(m, step, result) ==
    IF step.tool_name = "maps_weather" /\ IsDict(result) /\ HasKey(result, K_forecasts)
    THEN [m EXCEPT !.weather_data = @ \o result.d[K_forecasts].l]
    ELSE IF step.tool_name = "file_tool" /\ IsStr(result) /\ result.s # ""
            /\ ~StartsWithError(result.s)
    THEN [m EXCEPT !.file_paths =
             Append(@, [type |-> IF MentionsHtml(result.s) THEN "HTML" ELSE "doc",
                        path |-> result.s])]
    ELSE m

\* the body of "for step, result in steps_results": the if / elif chain on tool_name
ExtractStep(m, step, result) ==
    LET tool_name == step.tool_name
    IN IF tool_name = "maps_weather" /\ IsDict(result)
       THEN IF HasKey(result, K_forecasts)
            THEN [m EXCEPT !.weather_data = @ \o result.d[K_forecasts].l]
            ELSE m
       ELSE IF tool_name = "file_tool" /\ IsStr(result)
       THEN IF result.s # "" /\ ~StartsWithError(result.s)
            THEN [m EXCEPT !.file_paths =
                     Append(@, [type |-> IF MentionsHtml(result.s) THEN "HTML" ELSE "doc",
                                path |-> result.s])]
            ELSE m
       ELSE IF tool_name = "visualization_tool" /\ IsStr(result)
       THEN IF result.s # "" /\ EndsWithHtml(result.s) /\ ~StartsWithError(result.s)
            THEN [m EXCEPT !.map_paths = Append(@, result.s)]
            ELSE m
       ELSE IF tool_name \in DirectionTools /\ IsDict(result)
       THEN IF HasKey(result, K_paths) \/ HasKey(result, K_route)
            THEN [m EXCEPT !.routes = Append(@, [tool |-> tool_name, data |-> result])]
            ELSE m
       ELSE IF tool_name = "maps_text_search" /\ IsDict(result)
       THEN IF HasKey(result, K_pois)
            THEN [m EXCEPT !.pois = @ \o Take(result.d[K_pois].l, 5)]
            ELSE m
       ELSE IF tool_name = "web_search" /\ IsDict(result)
       THEN IF HasKey(result, K_image_urls) /\ IsList(result.d[K_image_urls])
            THEN [m EXCEPT !.images =
                     @ \o SelectSeq(Take(result.d[K_image_urls].l, 5), LAMBDA u : IsStr(u))]
            ELSE m
       ELSE m

\* variant: the pairs are read from the last one to the first
RECURSIVE ExtractFrom_Reversed(_, _)
ExtractFrom_Reversed(m, pairs) ==
    IF pairs = <<>> THEN m
    ELSE ExtractFrom_Reversed(ExtractStep(m, pairs[Len(pairs)][1], pairs[Len(pairs)][2]),
                              SubSeq(pairs, 1, Len(pairs) - 1))

RECURSIVE ExtractFrom(_, _)
ExtractFrom(m, pairs) ==
    IF pairs = <<>> THEN m
    ELSE ExtractFrom(ExtractStep(m, Head(pairs)[1], Head(pairs)[2]), Tail(pairs))

_extract_key_information(pairs) == ExtractFrom(EmptyManifest, pairs)

----------------------------------------------------------------------------
(* Inputs of a plan execution                                               *)

MaxSteps == 3

CurrentUser == "u1"

\* ".pois[0].lng" and ".distance*2" after "{step_0_result"
TailPoisLng == <<".">> \o K_pois \o <<"[", "0", "]", ".">> \o K_lng
TailDistanceTimes2 == <<".">> \o K_distance \o <<"*", "2">>

D_search ==
    Descriptor(FStr("find cafes"), FStr("maps_text_search"),
               FVal(PDict(<<Item("keywords", PStr(<<Lit("cafe")>>))>>)))
D_weather ==
    Descriptor(FStr("weather there"), FStr("maps_weather"),
               FVal(PDict(<<Item("city", PStr(<<Lit("near "), Brace(0, TailPoisLng)>>)),
                            Item("options",
                                 PList(<<PDict(<<Item("lng", PStr(<<Brace(0, TailPoisLng)>>))>>),
                                         VNum(3)>>))>>)))
D_file ==
    Descriptor(FStr("write the plan"), FStr("file_tool"),
               FVal(PDict(<<Item("format", PStr(<<Lit("html")>>)),
                            Item("content", PStr(<<Lit("<h1>plan</h1>")>>))>>)))
D_unknown == Descriptor(FStr("book a taxi"), FStr("taxi_tool"), Missing)
D_alias ==
    Descriptor(FStr("geocode"), FStr("mcp_tool"),
               FVal(PDict(<<Item("tool_name", PStr(<<Lit("maps_geo")>>))>>)))
D_bad_expr ==
    Descriptor(FStr("weather twice as far"), FStr("maps_weather"),
               FVal(PDict(<<Item("city", PStr(<<Brace(0, TailDistanceTimes2)>>))>>)))
D_no_tool ==
    Descriptor(FStr("no tool named"), Missing, FVal(PDict(<<>>)))

D_empty_goal ==
    Descriptor(FStr(""), FStr("maps_text_search"),
               FVal(PDict(<<Item("keywords", PStr(<<Lit("cafe")>>))>>)))

DescriptorPool == {D_search, D_weather, D_file, D_unknown, D_alias, D_bad_expr, D_no_tool,
                   D_empty_goal}
Plans == UNION {[1..n -> DescriptorPool] : n \in 0..MaxSteps}

SearchHit ==
    VDict((K_pois :> VList(<<VDict((K_lng :> VNum(116)) @@ (K_location :> VStr("116,39")))>>))
          @@ (K_success :> VBool(TRUE)))
MuseumHit ==
    VDict((K_pois :> VList(<<VDict((K_lng :> VNum(121)) @@ (K_location :> VStr("121,31")))>>))
          @@ (K_success :> VBool(TRUE)))
Forecast ==
    VDict((K_forecasts :> VList(<<VDict(K_city :> VStr("sunny"))>>)) @@ (K_success :> VBool(TRUE)))
\* GaodeWebAPIClient._request on an API error: returned, not raised
ApiError == VDict((K_success :> VBool(FALSE)) @@ (K_error :> VStr("gaode api error")))

ToolOutputs(tool_name) ==
    CASE tool_name = "maps_text_search" -> {SearchHit, MuseumHit, ApiError}
      [] tool_name = "maps_weather" -> {Forecast, ApiError}
      [] tool_name = "file_tool" -> {VStr(HtmlPath), VStr(ErrorText)}
      [] OTHER -> {}

ToolExceptions == {"TypeError: unexpected keyword argument"}

Pending == [t |-> "pending"]
Idle == [t |-> "idle"]
NoManifest == [t |-> "none"]

----------------------------------------------------------------------------
(* MemoryManager: load_memory, update_history                               *)

Message(role, content) == [role |-> role, content |-> content]

default_memory == [conversation_history |-> <<>>, first_visit |-> TRUE, files |-> <<>>]

\* the memory read from the user's history file, the default one when there is
\* no file; the history is emptied in what is returned while the user is flagged
load_memory(store, flags, user_id) ==
    IF user_id \notin DOMAIN store THEN default_memory
    ELSE IF user_id \in flags THEN [store[user_id] EXCEPT !.conversation_history = <<>>]
    ELSE store[user_id]

\* load_memory, append, save_memory: the store after the call
update_history(store, flags, user_id, message) ==
    LET memory == load_memory(store, flags, user_id)
    IN (user_id :> [memory EXCEPT !.conversation_history = Append(@, message),
                                  !.first_visit = FALSE]) @@ store

MemoryIdle ==
    /\ temp_clear_flags = {}
    /\ loaded = Idle
    /\ history_log = <<>>

----------------------------------------------------------------------------
(* Agent.run                                                                *)

ResolverIdle ==
    /\ tail = <<>>
    /\ step_idx = 0
    /\ current_step = 0
    /\ ctx_results = NoResults
    /\ replaced = Idle
    /\ replaced_again = Idle
    /\ raw_params = Idle
    /\ replaced_params = Idle

NoSessions ==
    /\ sessions = <<>>
    /\ contexts = <<>>
    /\ environ = ""

\* self.memory.update_history(user_id, {"role": .., "content": ..}) in Agent.run
Remember(role, content) ==
    memory_store' = update_history(memory_store, temp_clear_flags, CurrentUser,
                                   Message(role, content))

Init ==
    /\ steps_data \in Plans
    /\ strategy \in {"fail_fast", "graceful_degrade"}
    /\ steps = <<>>
    /\ pc = "plan"
    /\ i = 0
    /\ step_context = StepContext
    /\ steps_results = <<>>
    /\ resolved_step = Idle
    /\ invocations = <<>>
    /\ out = <<>>
    /\ extracted = NoManifest
    /\ failed = <<>>
    /\ returned = NoResults
    /\ memory_store = update_history(<< >>, {}, CurrentUser, Message("user", "input"))
    /\ MemoryIdle
    /\ ResolverIdle
    /\ NoSessions

\* the intents answered without a plan (GENERAL_CHAT, TOOL_INFO_QUERY and the
\* two KNOWLEDGE_QUERY intents): the reply is streamed, then remembered; the
\* planner is not called, so there are no descriptors
SimpleReply ==
    /\ pc = "plan"
    /\ steps_data = <<>>
    /\ \E intent \in {"general_chat", "tool_info_query",
                       "knowledge_query_icl", "knowledge_query_rag"} :
          out' = Append(out, [k |-> "reply", intent |-> intent])
    /\ Remember("assistant", out')
    /\ pc' = "replied"
    /\ UNCHANGED <<steps_data, strategy, steps, i, step_context, steps_results,
                   resolved_step, invocations, extracted, failed, returned>>
    /\ UNCHANGED <<rvars, cvars, fvars>>

\* steps = await self.plan_tasks(..); "if not steps" replies and returns
PlanTasks ==
    /\ pc = "plan"
    /\ steps' = plan_tasks(steps_data)
    /\ IF steps' = <<>>
       THEN /\ pc' = "rejected"
            /\ out' = Append(out, [k |-> "no_plan_reply"])
            /\ Remember("assistant", out')
       ELSE /\ pc' = "resolve"
            /\ out' = Append(out, [k |-> "plan", n |-> Len(steps')])
            /\ UNCHANGED memory_store
    /\ i' = 0
    /\ step_context' = StepContext
    /\ steps_results' = <<>>
    /\ UNCHANGED <<steps_data, strategy, resolved_step, invocations, extracted, failed, returned>>
    /\ UNCHANGED <<rvars, cvars, fvars>>

\* variant: the strategy is not consulted, every failure degrades
StepFailed_IgnoreStrategy(result) ==
    /\ failed' = Append(failed, [step |-> i, result |-> result])
    /\ pc' = "integrate"
    /\ out' = out \o <<[k |-> "error", cause |-> result], [k |-> "degrade"]>>
    /\ UNCHANGED memory_store

\* the "if not success" block of the loop, for step i with the given result
StepFailed(result) ==
    /\ failed' = Append(failed, [step |-> i, result |-> result])
    /\ IF strategy = "fail_fast"
       THEN /\ pc' = "aborted"
            /\ out' = out \o <<[k |-> "error", cause |-> result],
                               [k |-> "fail_fast_reply", goal |-> steps[i + 1].goal,
                                cause |-> result]>>
            /\ Remember("assistant", out')
       ELSE /\ pc' = "integrate"
            /\ out' = out \o <<[k |-> "error", cause |-> result], [k |-> "degrade"]>>
            /\ UNCHANGED memory_store

\* variant: a step whose resolution raises is skipped without a failure
ResolveStep_SkipOnError ==
    /\ pc = "resolve"
    /\ LET step == steps[i + 1]
           header == [k |-> "step_header", n |-> i + 1, goal |-> step.goal]
           resolved_params == replace_placeholders(step_context.results, step.parameters, i)
       IN IF IsErr(resolved_params)
          THEN /\ i' = i + 1
               /\ pc' = IF i + 1 = Len(steps) THEN "integrate" ELSE "resolve"
               /\ out' = Append(out, header)
               /\ UNCHANGED resolved_step
          ELSE /\ resolved_step' = [step EXCEPT !.parameters = resolved_params]
               /\ pc' = "execute"
               /\ out' = out \o <<header, [k |-> "call", tool |-> step.tool_name,
                                           parameters |-> resolved_params]>>
               /\ UNCHANGED i
    /\ UNCHANGED <<steps_data, strategy, steps, step_context, steps_results,
                   invocations, extracted, failed, returned, memory_store>>
    /\ UNCHANGED <<rvars, cvars, fvars>>

\* variant: the resolved parameters are written back into the step of the plan
ResolveStep_InPlace ==
    /\ pc = "resolve"
    /\ LET step == steps[i + 1]
           header == [k |-> "step_header", n |-> i + 1, goal |-> step.goal]
           resolved_params == replace_placeholders(step_context.results, step.parameters, i)
       IN IF IsErr(resolved_params)
          THEN LET error_msg == Msg("param_resolution_failed", i, resolved_params.kind)
                   result == VDict(K_error :> error_msg)
               IN /\ failed' = Append(failed, [step |-> i, result |-> result])
                  /\ UNCHANGED steps
                  /\ IF strategy = "fail_fast"
                     THEN /\ pc' = "aborted"
                          /\ out' = out \o <<header, [k |-> "error", cause |-> error_msg],
                                             [k |-> "prep_failed_reply", goal |-> step.goal]>>
                          /\ Remember("assistant", out')
                          /\ UNCHANGED resolved_step
                     ELSE /\ pc' = "integrate"
                          /\ resolved_step' = step
                          /\ out' = out \o <<header, [k |-> "error", cause |-> error_msg],
                                             [k |-> "error", cause |-> result],
                                             [k |-> "degrade"]>>
                          /\ UNCHANGED memory_store
          ELSE /\ steps' = [steps EXCEPT ![i + 1].parameters = resolved_params]
               /\ resolved_step' = [step EXCEPT !.parameters = resolved_params]
               /\ pc' = "execute"
               /\ out' = out \o <<header, [k |-> "call", tool |-> step.tool_name,
                                           parameters |-> resolved_params]>>
               /\ UNCHANGED <<failed, memory_store>>
    /\ UNCHANGED <<steps_data, strategy, i, step_context, steps_results,
                   invocations, extracted, returned>>
    /\ UNCHANGED <<rvars, cvars, fvars>>

\* top of the loop body: replace_placeholders and TaskStep(...), or "except ValueError"
ResolveStep ==
    /\ pc = "resolve"
    /\ LET step == steps[i + 1]
           header == [k |-> "step_header", n |-> i + 1, goal |-> step.goal]
           resolved_params == replace_placeholders(step_context.results, step.parameters, i)
       IN IF IsErr(resolved_params)
          THEN LET error_msg == Msg("param_resolution_failed", i, resolved_params.kind)
                   result == VDict(K_error :> error_msg)
               IN /\ failed' = Append(failed, [step |-> i, result |-> result])
                  /\ IF strategy = "fail_fast"
                     THEN /\ pc' = "aborted"
                          /\ out' = out \o <<header, [k |-> "error", cause |-> error_msg],
                                             [k |-> "prep_failed_reply", goal |-> step.goal]>>
                          /\ Remember("assistant", out')
                          /\ UNCHANGED resolved_step
                     ELSE /\ pc' = "integrate"
                          /\ resolved_step' = step
                          /\ out' = out \o <<header, [k |-> "error", cause |-> error_msg],
                                             [k |-> "error", cause |-> result],
                                             [k |-> "degrade"]>>
                          /\ UNCHANGED memory_store
          ELSE /\ resolved_step' = [step EXCEPT !.parameters = resolved_params]
               /\ pc' = "execute"
               /\ out' = out \o <<header, [k |-> "call", tool |-> step.tool_name,
                                           parameters |-> resolved_params]>>
               /\ UNCHANGED <<failed, memory_store>>
    /\ UNCHANGED <<steps_data, strategy, steps, i, step_context, steps_results,
                   invocations, extracted, returned>>
    /\ UNCHANGED <<rvars, cvars, fvars>>

\* variant: the tool call is started and the loop moves on without awaiting it
ExecuteStep_NoAwait ==
    /\ pc = "execute"
    /\ IF EarlyFailure(resolved_step) # Null
       THEN /\ StepFailed(EarlyFailure(resolved_step))
            /\ UNCHANGED <<invocations, i>>
       ELSE /\ invocations' = Append(invocations,
                                     [step |-> i, tool |-> resolved_step.tool_name,
                                      parameters |-> CallParams(resolved_step, CurrentUser)])
            /\ i' = i + 1
            /\ pc' = IF i + 1 = Len(steps) THEN "integrate" ELSE "resolve"
            /\ UNCHANGED <<out, failed, memory_store>>
    /\ UNCHANGED <<steps_data, strategy, steps, step_context, steps_results,
                   resolved_step, extracted, returned>>
    /\ UNCHANGED <<rvars, cvars, fvars>>

\* variant: a call one of whose resolved values is the empty string is refused
ExecuteStep_PreflightEmpty ==
    /\ pc = "execute"
    /\ IF EarlyFailure(resolved_step) # Null
       THEN /\ StepFailed(EarlyFailure(resolved_step))
            /\ UNCHANGED invocations
       ELSE IF \E n \in 1..Len(Leaves(resolved_step.parameters)) :
                  Leaves(resolved_step.parameters)[n] = EmptyText
       THEN /\ StepFailed(VDict(K_error :> Msg("empty_parameter", resolved_step.tool_name,
                                                "preflight")))
            /\ UNCHANGED invocations
       ELSE /\ invocations' = Append(invocations,
                                     [step |-> i, tool |-> resolved_step.tool_name,
                                      parameters |-> CallParams(resolved_step, CurrentUser)])
            /\ pc' = "awaiting"
            /\ UNCHANGED <<out, failed, memory_store>>
    /\ UNCHANGED <<steps_data, strategy, steps, i, step_context, steps_results,
                   resolved_step, extracted, returned>>
    /\ UNCHANGED <<rvars, cvars, fvars>>

\* execute_step up to its await: an early failure return, or the tool call starts
ExecuteStep ==
    /\ pc = "execute"
    /\ IF EarlyFailure(resolved_step) # Null
       THEN /\ StepFailed(EarlyFailure(resolved_step))
            /\ UNCHANGED invocations
       ELSE /\ invocations' = Append(invocations,
                                     [step |-> i, tool |-> resolved_step.tool_name,
                                      parameters |-> CallParams(resolved_step, CurrentUser)])
            /\ pc' = "awaiting"
            /\ UNCHANGED <<out, failed, memory_store>>
    /\ UNCHANGED <<steps_data, strategy, steps, i, step_context, steps_results,
                   resolved_step, extracted, returned>>
    /\ UNCHANGED <<rvars, cvars, fvars>>

\* variant: the result is recorded in the context but the pair is not listed
ToolReturns_NotListed ==
    /\ pc = "awaiting"
    /\ \E raw \in ToolOutputs(resolved_step.tool_name) :
          LET result == IF resolved_step.tool_name \in ToolMethods THEN raw
                        ELSE ParsedResult(raw)
          IN /\ returned' = (i :> [kind |-> "returned", v |-> raw]) @@ returned
             /\ step_context' = set_result(step_context, i, Recorded(result, TRUE))
             /\ Remember("system", [step |-> i, result |-> result])
    /\ out' = Append(out, [k |-> "saved", n |-> i])
    /\ i' = i + 1
    /\ pc' = IF i + 1 = Len(steps) THEN "integrate" ELSE "resolve"
    /\ UNCHANGED <<steps_data, strategy, steps, steps_results, resolved_step, invocations,
                   extracted, failed>>
    /\ UNCHANGED <<rvars, cvars, fvars>>

\* the awaited tool returns: (True, result), set_result, steps_results.append
\* and the step's system message is persisted
ToolReturns ==
    /\ pc = "awaiting"
    /\ \E raw \in ToolOutputs(resolved_step.tool_name) :
          LET result == IF resolved_step.tool_name \in ToolMethods THEN raw
                        ELSE ParsedResult(raw)
          IN /\ returned' = (i :> [kind |-> "returned", v |-> raw]) @@ returned
             /\ step_context' = set_result(step_context, i, Recorded(result, TRUE))
             /\ steps_results' = Append(steps_results, <<resolved_step, result>>)
             /\ Remember("system", [step |-> i, result |-> result])
    /\ out' = Append(out, [k |-> "saved", n |-> i])
    /\ i' = i + 1
    /\ pc' = IF i + 1 = Len(steps) THEN "integrate" ELSE "resolve"
    /\ UNCHANGED <<steps_data, strategy, steps, resolved_step, invocations, extracted, failed>>
    /\ UNCHANGED <<rvars, cvars, fvars>>

\* variant: the catch-all handler replies but does not remember its reply
PersistFails_Unanswered ==
    /\ pc = "awaiting"
    /\ \E raw \in ToolOutputs(resolved_step.tool_name) :
          LET result == IF resolved_step.tool_name \in ToolMethods THEN raw
                        ELSE ParsedResult(raw)
          IN /\ returned' = (i :> [kind |-> "returned", v |-> raw]) @@ returned
             /\ step_context' = set_result(step_context, i, Recorded(result, TRUE))
             /\ steps_results' = Append(steps_results, <<resolved_step, result>>)
    /\ out' = out \o <<[k |-> "saved", n |-> i], [k |-> "system_error"]>>
    /\ UNCHANGED memory_store
    /\ pc' = "system_error"
    /\ UNCHANGED <<steps_data, strategy, steps, i, resolved_step, invocations, extracted, failed>>
    /\ UNCHANGED <<rvars, cvars, fvars>>

\* as ToolReturns, but memory.update_history raises while persisting the step's
\* message (save_memory re-raises): the outer "except Exception" of run replies
PersistFails ==
    /\ pc = "awaiting"
    /\ \E raw \in ToolOutputs(resolved_step.tool_name) :
          LET result == IF resolved_step.tool_name \in ToolMethods THEN raw
                        ELSE ParsedResult(raw)
          IN /\ returned' = (i :> [kind |-> "returned", v |-> raw]) @@ returned
             /\ step_context' = set_result(step_context, i, Recorded(result, TRUE))
             /\ steps_results' = Append(steps_results, <<resolved_step, result>>)
    /\ out' = out \o <<[k |-> "saved", n |-> i], [k |-> "system_error"]>>
    /\ Remember("assistant", out')
    /\ pc' = "system_error"
    /\ UNCHANGED <<steps_data, strategy, steps, i, resolved_step, invocations, extracted, failed>>
    /\ UNCHANGED <<rvars, cvars, fvars>>

\* variant: a step whose tool raised is executed again
ToolRaises_Retry ==
    /\ pc = "awaiting"
    /\ \E e \in ToolExceptions :
          /\ returned' = (i :> [kind |-> "raised", e |-> e]) @@ returned
          /\ failed' = Append(failed, [step |-> i,
                                       result |-> VDict(K_error :> Msg("tool_error",
                                                        resolved_step.tool_name, e))])
    /\ pc' = "execute"
    /\ UNCHANGED <<steps_data, strategy, steps, i, step_context, steps_results,
                   resolved_step, invocations, out, extracted, memory_store>>
    /\ UNCHANGED <<rvars, cvars, fvars>>

\* the awaited tool raises an Exception: execute_step returns (False, {"error": ..})
ToolRaises ==
    /\ pc = "awaiting"
    /\ \E e \in ToolExceptions :
          /\ returned' = (i :> [kind |-> "raised", e |-> e]) @@ returned
          /\ StepFailed(VDict(K_error :> Msg("tool_error", resolved_step.tool_name, e)))
    /\ UNCHANGED <<steps_data, strategy, steps, i, step_context, steps_results,
                   resolved_step, invocations, extracted>>
    /\ UNCHANGED <<rvars, cvars, fvars>>

\* the awaited tool call is cancelled: asyncio.CancelledError is a BaseException,
\* so neither "except Exception" of execute_step nor that of run catches it
ToolCancelled ==
    /\ pc = "awaiting"
    /\ returned' = (i :> [kind |-> "cancelled"]) @@ returned
    /\ pc' = "cancelled"
    /\ UNCHANGED <<steps_data, strategy, steps, i, step_context, steps_results,
                   resolved_step, invocations, out, extracted, failed, memory_store>>
    /\ UNCHANGED <<rvars, cvars, fvars>>

\* variant: the extraction consumes the (step, result) pairs it reads
Integrate_Draining ==
    /\ pc = "integrate"
    /\ extracted' = _extract_key_information(steps_results)
    /\ steps_results' = <<>>
    /\ out' = out \o <<[k |-> "integrating"], [k |-> "answer"]>>
    /\ Remember("assistant", out')
    /\ pc' = "completed"
    /\ UNCHANGED <<steps_data, strategy, steps, i, step_context,
                   resolved_step, invocations, failed, returned>>
    /\ UNCHANGED <<rvars, cvars, fvars>>

\* after the loop: integrate_results_stream builds the manifest and the answer
Integrate ==
    /\ pc = "integrate"
    /\ extracted' = _extract_key_information(steps_results)
    /\ out' = out \o <<[k |-> "integrating"], [k |-> "answer"]>>
    /\ Remember("assistant", out')
    /\ pc' = "completed"
    /\ UNCHANGED <<steps_data, strategy, steps, i, step_context, steps_results,
                   resolved_step, invocations, failed, returned>>
    /\ UNCHANGED <<rvars, cvars, fvars>>

Next ==
    \/ SimpleReply
    \/ PlanTasks
    \/ ResolveStep
    \/ ExecuteStep
    \/ ToolReturns
    \/ PersistFails
    \/ ToolRaises
    \/ ToolCancelled
    \/ Integrate

Spec == Init /\ [][Next]_vars

----------------------------------------------------------------------------
(* Properties of the plan execution                                         *)

Registry == ToolMethods \cup StandardTools
HeaderIdxs == {n \in 1..Len(out) : out[n].k = "step_header"}
InvokedSteps == {invocations[n].step : n \in 1..Len(invocations)}
FailedSteps == {failed[n].step : n \in 1..Len(failed)}
\* the result a successful step k was given by its tool, as execute_step returns it
ResultOf(k) ==
    IF steps[k + 1].tool_name \in ToolMethods THEN returned[k].v
    ELSE ParsedResult(returned[k].v)
\* the outcome the active strategy prescribes after a step failure
StrategyApplied ==
    IF strategy = "fail_fast" THEN pc = "aborted" ELSE pc \in {"integrate", "completed"}

\* C1: under FailFast, once a step has failed the run is aborted, no step after
\* the failed one is announced or has its tool invoked, and the last chunks
\* yielded to the caller name the failed step (its number and goal) and carry
\* the cause of the failure.
C1_FailFastStopsAndReports ==
    (strategy = "fail_fast" /\ failed # <<>>) =>
        LET f == failed[1]
            last == out[Len(out)]
        IN /\ Len(failed) = 1
           /\ pc = "aborted"
           /\ \A k \in InvokedSteps : k <= f.step
           /\ \A n \in HeaderIdxs : out[n].n <= f.step + 1
           /\ \E n \in HeaderIdxs : out[n].n = f.step + 1 /\ out[n].goal = steps[f.step + 1].goal
           /\ \/ /\ last.k = "fail_fast_reply"
                 /\ last.goal = steps[f.step + 1].goal
                 /\ last.cause = f.result
              \/ /\ last.k = "prep_failed_reply"
                 /\ last.goal = steps[f.step + 1].goal
                 /\ out[Len(out) - 1] = [k |-> "error", cause |-> f.result.d[K_error]]

C1_Witness ==
    /\ strategy = "fail_fast"
    /\ pc = "aborted"
    /\ Len(steps) = 3
    /\ failed # <<>>
    /\ failed[1].step = 1
    /\ steps[3].tool_name \in Registry
    /\ InvokedSteps = {0, 1}

\* C2: under GracefulDegrade, once a step has failed no later step is announced
\* or invoked, the run goes on to result integration, and the manifest built
\* there is the extraction over every step before the failed one with the
\* result its tool returned; in particular the POIs returned by an earlier
\* maps_text_search step are in the manifest.
C2_DegradeIntegratesPartial ==
    (strategy = "graceful_degrade" /\ failed # <<>>) =>
        LET f == failed[1].step
        IN /\ Len(failed) = 1
           /\ pc \in {"integrate", "completed"}
           /\ \A k \in InvokedSteps : k <= f
           /\ \A n \in HeaderIdxs : out[n].n <= f + 1
           /\ pc = "completed" =>
                 /\ extracted # NoManifest
                 /\ extracted = ExtractFrom(EmptyManifest,
                                            [k \in 1..f |-> <<steps[k], ResultOf(k - 1)>>])
                 /\ \A k \in 0..(f - 1) :
                       (steps[k + 1].tool_name = "maps_text_search" /\ returned[k].v = SearchHit)
                           => \E n \in 1..Len(extracted.pois) :
                                 extracted.pois[n] = SearchHit.d[K_pois].l[1]

C2_Witness ==
    /\ strategy = "graceful_degrade"
    /\ pc = "completed"
    /\ Len(steps) = 3
    /\ failed # <<>>
    /\ failed[1].step = 1
    /\ steps[1].tool_name = "maps_text_search"
    /\ returned[0].v = SearchHit
    /\ extracted.pois # <<>>

\* a step that ran to an outcome: its tool returned, or the engine counted it failed
Finished(k) ==
    \/ k \in DOMAIN returned /\ returned[k].kind = "returned"
    \/ k \in FailedSteps

\* C3 (as claimed): every step that finished, succeeded or failed, has a result
\* recorded in the Step Context at its index.
C3_EveryFinishedStepRecorded ==
    \A k \in 0..(Len(steps) - 1) : Finished(k) => k \in DOMAIN step_context.results

\* C3 (amended): every step whose tool returned has the value derived from its
\* result recorded at its index, and a failed step is not recorded at all.
C3_SucceededRecordedFailedNot ==
    /\ \A k \in DOMAIN returned :
          returned[k].kind = "returned" =>
              /\ k \in DOMAIN step_context.results
              /\ step_context.results[k] = Recorded(ResultOf(k), TRUE)
    /\ \A k \in FailedSteps : k \notin DOMAIN step_context.results

C3_Witness ==
    /\ failed # <<>>
    /\ failed[1].step = 1
    /\ DOMAIN step_context.results = {0}
    /\ failed[1].result.t = "dict"

\* C6: when some descriptor of the plan fails validation, then from planning
\* onwards the run is in its rejected state with no validated step, no step
\* announced, no tool invoked and nothing recorded, even when well-formed
\* descriptors precede the bad one.
C6_InvalidPlanRejected ==
    (pc # "plan" /\ \E k \in 1..Len(steps_data) : ~Validates(steps_data[k])) =>
        /\ pc = "rejected"
        /\ steps = <<>>
        /\ invocations = <<>>
        /\ HeaderIdxs = {}
        /\ step_context.results = NoResults
        /\ out = <<[k |-> "no_plan_reply"]>>

C6_Witness ==
    /\ pc = "rejected"
    /\ Len(steps_data) = 3
    /\ Validates(steps_data[1])
    /\ steps_data[1].tool_name.s \in Registry
    /\ ~Validates(steps_data[2])

\* the loop has gone past the resolution / the execute_step call of step k
PastResolution(k) == k < i \/ (k = i /\ pc \notin {"plan", "rejected", "resolve"})
PastExecution(k) == k < i \/ (k = i /\ pc \notin {"plan", "rejected", "resolve", "execute"})
\* replace_placeholders raises for step k (results of steps before k do not change
\* once recorded, and later ones are never read for step k)
ResolutionRaises(k) ==
    IsErr(replace_placeholders(step_context.results, steps[k + 1].parameters, k))

\* C7: for every step k whose parameter resolution raises and that the loop has
\* gone past, step k has no tool invocation, it is the last step counted as
\* failed, and the run is where the strategy puts it after any step failure:
\* aborted under FailFast, integrating (or completed) under GracefulDegrade.
C7_ResolutionFailureIsStepFailure ==
    \A k \in 0..(Len(steps) - 1) :
        (PastResolution(k) /\ ResolutionRaises(k))
            => /\ k \notin InvokedSteps
               /\ failed # <<>>
               /\ failed[Len(failed)].step = k
               /\ StrategyApplied

C7_Witness ==
    /\ pc = "completed"
    /\ i = 1
    /\ i < Len(steps)
    /\ replace_placeholders(step_context.results, steps[i + 1].parameters, i)
          = Err("unsupported_expression")
    /\ failed # <<>>
    /\ InvokedSteps = {0}

\* C8 (as claimed): no error of a step escapes the loop: the run never ends by
\* a propagated cancellation or in the catch-all system-error reply, and every
\* step whose tool raised or was cancelled is counted as a failed step.
C8_EveryStepErrorCaptured ==
    /\ pc \notin {"cancelled", "system_error"}
    /\ \A k \in DOMAIN returned :
          returned[k].kind \in {"raised", "cancelled"} => k \in FailedSteps

\* C9 (as claimed): a step whose tool call was cancelled is counted as a failed
\* step and the run is where the active strategy puts it.
C9_CancellationIsStepFailure ==
    \A k \in DOMAIN returned :
        returned[k].kind = "cancelled" => (k \in FailedSteps /\ StrategyApplied)

\* C10: a plan whose descriptors all validate is accepted whole even when it
\* names a tool in no registry; no tool outside the registries is ever invoked;
\* and once execute_step has handled a resolved step i with such a name, step i
\* has no invocation, is the last failed step with the tool-does-not-exist (or
\* invalid-alias) failure as its result, and the strategy is applied.
C10_UnknownToolIsStepFailure ==
    /\ (pc # "plan" /\ steps_data # <<>> /\ \A k \in 1..Len(steps_data) : Validates(steps_data[k]))
          => (pc # "rejected" /\ Len(steps) = Len(steps_data))
    /\ \A n \in 1..Len(invocations) : invocations[n].tool \in Registry
    /\ \A k \in 0..(Len(steps) - 1) :
          (PastExecution(k) /\ steps[k + 1].tool_name \notin Registry /\ ~ResolutionRaises(k))
              => /\ k \notin InvokedSteps
                 /\ failed # <<>>
                 /\ failed[Len(failed)].step = k
                 /\ failed[Len(failed)].result =
                       IF steps[k + 1].tool_name = "mcp_tool"
                       THEN VDict(K_error :> Msg("invalid_tool_name_mcp_tool", "mcp_tool", "alias"))
                       ELSE Msg("tool_does_not_exist", steps[k + 1].tool_name, "not_registered")
                 /\ StrategyApplied

C10_Witness ==
    /\ pc = "completed"
    /\ i = 1
    /\ Len(steps) = 3
    /\ steps[2].tool_name = "taxi_tool"
    /\ failed # <<>>
    /\ failed[1].result = Msg("tool_does_not_exist", "taxi_tool", "not_registered")
    /\ InvokedSteps = {0}

\* C14: the step of the loop that resolves a step's parameters leaves the plan
\* (every step and its parameter mapping, nested values included), the raw
\* descriptors and the Step Context as they were; what it hands to execute_step
\* is a new step, and resolving the untouched original again against the
\* untouched results gives the same parameters.
C14_ResolutionLeavesOriginal ==
    [][(pc = "resolve") =>
          /\ steps' = steps
          /\ steps_data' = steps_data
          /\ step_context' = step_context
          /\ (pc' = "execute") =>
                 /\ resolved_step'.parameters =
                       replace_placeholders(step_context'.results, steps'[i' + 1].parameters, i')
                 /\ resolved_step'.goal = steps'[i' + 1].goal
                 /\ resolved_step'.tool_name = steps'[i' + 1].tool_name]_vars

C14_Witness ==
    /\ pc = "execute"
    /\ i = 1
    /\ steps[2] = TaskStep(D_weather)
    /\ resolved_step.parameters # steps[2].parameters
    /\ resolved_step.parameters.items[2].v.l[1].items[1].v
          = [t |-> "rstr", texts |-> <<StrOf(VNum(116))>>]

\* C18: the step that builds the manifest leaves the Step Context (results,
\* metadata, step count), the ordered (step, result) pairs and the plan as they
\* were, and the manifest it builds is the extraction over those pairs.
C18_ManifestLeavesState ==
    [][(pc = "integrate") =>
          /\ step_context' = step_context
          /\ steps_results' = steps_results
          /\ steps' = steps
          /\ extracted' = _extract_key_information(steps_results')]_vars

C18_Witness ==
    /\ pc = "completed"
    /\ Len(steps_results) = 2
    /\ DOMAIN step_context.results = {0, 1}
    /\ extracted.pois # <<>>
    /\ extracted.weather_data # <<>>

\* C19 (as claimed): every step of a validated plan has a non-empty goal and a
\* non-empty tool name.
C19_StepsHaveGoalAndTool ==
    \A k \in 1..Len(steps) : steps[k].goal # "" /\ steps[k].tool_name # ""

\* C20: at every point of the run the indices that have a recorded result are
\* 0, ..., k-1 for some k, and k is also the step count of the Step Context.
C20_RecordedIndicesContiguous ==
    \E k \in 0..Len(steps) :
        /\ DOMAIN step_context.results = 0..(k - 1)
        /\ step_context.step_count = k

C20_Witness ==
    /\ pc = "resolve"
    /\ i = 2
    /\ DOMAIN step_context.results = {0, 1}
    /\ step_context.step_count = 2

\* tool calls that were started and have neither returned, raised nor been cancelled
InFlight == {k \in InvokedSteps : k \notin DOMAIN returned}

\* C15: tools are invoked in index order, each step at most once; when the call
\* of step k has been started, every step before k has returned and has its
\* result recorded in the Step Context; and at most one call is in flight,
\* which is the call of the current step while the loop awaits it.
C15_StrictlySequential ==
    /\ \A m, n \in 1..Len(invocations) : m < n => invocations[m].step < invocations[n].step
    /\ \A k \in InvokedSteps : \A j \in 0..(k - 1) :
          /\ j \in DOMAIN returned
          /\ returned[j].kind = "returned"
          /\ j \in DOMAIN step_context.results
    /\ Cardinality(InFlight) <= 1
    /\ InFlight # {} => (pc = "awaiting" /\ InFlight = {i})

C15_Witness ==
    /\ pc = "awaiting"
    /\ Len(invocations) = 3
    /\ InFlight = {2}
    /\ DOMAIN step_context.results = {0, 1}

\* the outcome carries an error: a mapping with an "error" entry, or an error message
CarriesError(result) == HasKey(result, K_error) \/ result.t = "msg"

\* C16 (as claimed): an outcome carries an error exactly when its success is
\* false: no result of a step the engine counted as successful carries an
\* error, and every result of a step it counted as failed carries one.
C16_ErrorIffNotSuccess ==
    /\ \A n \in 1..Len(steps_results) : ~CarriesError(steps_results[n][2])
    /\ \A n \in 1..Len(failed) : CarriesError(failed[n].result)

\* what replace_placeholders returns for step k
ResolvedParams(k) == replace_placeholders(step_context.results, steps[k + 1].parameters, k)

----------------------------------------------------------------------------
(* Recorded results are append-only                                         *)

\* C21: within one plan execution the recorded results only grow: a step of
\* the run writes at most one index, an index that was not recorded before,
\* and every index already recorded keeps the value it was recorded with
C21_ResultsAppendOnly ==
    [][/\ \A k \in DOMAIN step_context.results :
              /\ k \in DOMAIN step_context'.results
              /\ step_context'.results[k] = step_context.results[k]
       /\ Cardinality(DOMAIN step_context'.results \ DOMAIN step_context.results) <= 1]_vars

\* two results are recorded one after the other and the execution has ended
C21_Witness ==
    /\ pc = "completed"
    /\ DOMAIN step_context.results = {0, 1}
    /\ step_context.results[0] # step_context.results[1]

----------------------------------------------------------------------------
(* No retries                                                               *)

\* C23: the tool of a step is invoked at most once during the execution (the
\* invocations are of strictly increasing step indices), and once a step has
\* failed no invocation of that step or of an earlier step is ever made
C23_NoReinvocation ==
    [][/\ \A a, b \in 1..Len(invocations') :
              a < b => invocations'[a].step < invocations'[b].step
       /\ \A n \in 1..Len(failed), m \in (Len(invocations) + 1)..Len(invocations') :
              invocations'[m].step > failed[n].step]_vars

\* the tool of the second step was invoked and raised; the execution has ended
\* with that one invocation of it
C23_Witness ==
    /\ pc = "completed"
    /\ Len(failed) = 1
    /\ failed[1].step = 1
    /\ 1 \in DOMAIN returned
    /\ returned[1].kind = "raised"
    /\ Len(invocations) = 2
    /\ invocations[2].step = 1

----------------------------------------------------------------------------
(* The pairs handed to the integration and the Step Context                 *)

----------------------------------------------------------------------------
(* The conversation history of a run                                        *)

\* the messages the run has appended to the history of its user (the history
\* held nothing before the run)
History == memory_store[CurrentUser].conversation_history
AssistantAt == {n \in 1..Len(History) : History[n].role = "assistant"}

\* C29: a run that has run to completion, whatever the intent, the strategy
\* and the path (a reply without a plan, no plan, a step failure under either
\* strategy, the catch-all handler, the integration), has appended exactly one
\* assistant message, and no message after it
C29_OneAssistantMessageLast ==
    (pc \in {"replied", "rejected", "aborted", "completed", "system_error"})
        => AssistantAt = {Len(History)}

\* the first step was remembered, then an exception reached the catch-all
\* handler, whose reply is the one assistant message
C29_Witness ==
    /\ pc = "system_error"
    /\ Len(History) = 3
    /\ History[1].role = "user"
    /\ History[2].role = "system"
    /\ History[3] = Message("assistant", out)

----------------------------------------------------------------------------
(* Specification of a single replacer call over bounded inputs              *)

MaxPathLen == 3
MaxStepIdx == 1

PathChars == {"a", "e", "0", ".", "[", "]", "(", "+", "*", "<", "="}
Paths == UNION {[1..n -> PathChars] : n \in 1..MaxPathLen}
\* "{step_N_result}", "{step_N_result.<path>}" and "{step_N_result[<path>}"
\* ".e.upper", ".pois[0].lng", ".pois[5].lng", ".results[0].lng", ".a[0].e", ".a[1].e"
\* "[0].e" after "{step_N_result": the form "{step_0_result[0].name}"
TailFirstE == <<"[", "0", "]", ".", "e">>
TailPoisFar == <<".">> \o K_pois \o <<"[", "5", "]", ".">> \o K_lng
NamedTails == {<<".", "e", ".">> \o K_upper, TailPoisLng, TailPoisFar,
               <<".">> \o K_results \o <<"[", "0", "]", ".">> \o K_lng,
               <<".", "a", "[", "0", "]", ".", "e">>, <<".", "a", "[", "1", "]", ".", "e">>,
               TailFirstE}
Tails == {<<>>} \cup {<<".">> \o p : p \in Paths} \cup {<<"[">> \o p : p \in Paths}
            \cup NamedTails
\* addresses the interpreter may give an object
Addrs == {"0x7f01", "0x7f02"}

\* a recorded payload {"a": [{"e": 7}], "e": "s"}
SmallPayload ==
    VDict((<<"a">> :> VList(<<VDict(<<"e">> :> VNum(7))>>)) @@ (<<"e">> :> VStr("s")))
\* a recorded payload that is a list, [{"e": 7}]
ListPayload == VList(<<VDict(<<"e">> :> VNum(7))>>)
ResultStores == {NoResults, (0 :> SmallPayload), (0 :> SmallPayload) @@ (1 :> SmallPayload),
                 (0 :> SearchHit), (0 :> ListPayload)}

EngineIdle ==
    /\ steps_data = <<>>
    /\ strategy = "idle"
    /\ steps = <<>>
    /\ pc = "idle"
    /\ i = 0
    /\ step_context = StepContext
    /\ steps_results = <<>>
    /\ resolved_step = Idle
    /\ invocations = <<>>
    /\ out = <<>>
    /\ extracted = NoManifest
    /\ failed = <<>>
    /\ returned = NoResults

InitResolve ==
    /\ EngineIdle
    /\ memory_store = << >>
    /\ MemoryIdle
    /\ NoSessions
    /\ tail \in Tails
    /\ step_idx \in 0..MaxStepIdx
    /\ current_step \in 0..(MaxStepIdx + 1)
    /\ ctx_results \in ResultStores
    /\ replaced = Pending
    /\ replaced_again = Pending
    /\ raw_params = Idle
    /\ replaced_params = Idle

\* one call of replacer by re.sub; the objects of the recorded results live
\* where the interpreter put them
Replace ==
    /\ replaced = Pending
    /\ \E addr \in Addrs :
          replaced' = AtAddress(SubBrace(ctx_results, current_step, step_idx, tail), addr)
    /\ UNCHANGED <<tail, step_idx, current_step, ctx_results, replaced_again, raw_params, replaced_params>>
    /\ UNCHANGED <<evars, cvars, mvars>>

\* the same call made again: equal parameters, equal recorded results, same index
ReplaceAgain ==
    /\ replaced # Pending
    /\ replaced_again = Pending
    /\ \E addr \in Addrs :
          replaced_again' = AtAddress(SubBrace(ctx_results, current_step, step_idx, tail), addr)
    /\ UNCHANGED <<tail, step_idx, current_step, ctx_results, replaced, raw_params, replaced_params>>
    /\ UNCHANGED <<evars, cvars, mvars>>

NextResolve == Replace \/ ReplaceAgain

SpecResolve == InitResolve /\ [][NextResolve]_vars

----------------------------------------------------------------------------
(* Specification of a single replace_placeholders call on a nested mapping  *)

ParamBraces ==
    {Brace(idx, tl) : idx \in 0..MaxStepIdx,
                      tl \in {<<>>, TailPoisLng, TailPoisFar, TailDistanceTimes2, <<".", "e">>}}
\* {"city": "near <b1>/<b2>", "options": [{"lng": "<b3>"}, 3]}
ParamPool ==
    {PDict(<<Item("city", PStr(<<Lit("near "), b1, Lit("/"), b2>>)),
             Item("options", PList(<<PDict(<<Item("lng", PStr(<<b3>>))>>), VNum(3)>>))>>) :
        b1 \in ParamBraces, b2 \in ParamBraces, b3 \in ParamBraces}

InitParams ==
    /\ EngineIdle
    /\ memory_store = << >>
    /\ MemoryIdle
    /\ NoSessions
    /\ tail = <<>>
    /\ step_idx = 0
    /\ replaced = Idle
    /\ replaced_again = Idle
    /\ raw_params \in ParamPool
    /\ current_step \in 0..(MaxStepIdx + 1)
    /\ ctx_results \in ResultStores
    /\ replaced_params = Pending

ResolveParams ==
    /\ replaced_params = Pending
    /\ replaced_params' = replace_placeholders(ctx_results, raw_params, current_step)
    /\ UNCHANGED <<tail, step_idx, current_step, ctx_results, replaced, replaced_again, raw_params>>
    /\ UNCHANGED <<evars, cvars, mvars>>

SpecParams == InitParams /\ [][ResolveParams]_vars

----------------------------------------------------------------------------
(* Specification of the MemoryManager on its own: any sequence of calls     *)

MaxHistory == 3

Users == {"u1", "u2"}
\* the messages of a user handed to update_history so far
Logged(u) == IF u \in DOMAIN history_log THEN history_log[u] ELSE << >>

InitMemory ==
    /\ EngineIdle
    /\ ResolverIdle
    /\ NoSessions
    /\ memory_store = << >>
    /\ MemoryIdle

set_temp_clear(u, enable) ==
    /\ temp_clear_flags' = IF enable THEN temp_clear_flags \cup {u}
                           ELSE temp_clear_flags \ {u}
    /\ loaded' = Idle
    /\ UNCHANGED <<memory_store, history_log>>
    /\ UNCHANGED <<evars, rvars, cvars>>

UpdateHistory(u, m) ==
    /\ Len(Logged(u)) < MaxHistory
    /\ memory_store' = update_history(memory_store, temp_clear_flags, u, m)
    /\ history_log' = (u :> Append(Logged(u), m)) @@ history_log
    /\ loaded' = Idle
    /\ UNCHANGED temp_clear_flags
    /\ UNCHANGED <<evars, rvars, cvars>>

LoadMemory(u) ==
    /\ loaded' = [user_id |-> u, memory |-> load_memory(memory_store, temp_clear_flags, u)]
    /\ UNCHANGED <<memory_store, temp_clear_flags, history_log>>
    /\ UNCHANGED <<evars, rvars, cvars>>

\* the history file, when there is one, is reset to the default memory and the
\* flag of the user is dropped
clear_context(u) ==
    /\ memory_store' = IF u \in DOMAIN memory_store
                       THEN (u :> default_memory) @@ memory_store
                       ELSE memory_store
    /\ temp_clear_flags' = temp_clear_flags \ {u}
    /\ history_log' = (u :> << >>) @@ history_log
    /\ loaded' = Idle
    /\ UNCHANGED <<evars, rvars, cvars>>

NextMemory ==
    \E u \in Users :
        \/ \E enable \in BOOLEAN : set_temp_clear(u, enable)
        \/ \E text \in {"a", "b"} : UpdateHistory(u, Message("user", text))
        \/ LoadMemory(u)
        \/ clear_context(u)

SpecMemory == InitMemory /\ [][NextMemory]_vars

\* C30 (as claimed): load_memory of a user who is not flagged returns every
\* message handed to update_history for that user since the last
\* clear_context, in order: the messages stored before a temporary clear was
\* switched on, followed by those appended while it was on and after it was
\* switched off
C30_TempClearKeepsHistory ==
    (loaded # Idle /\ loaded.user_id \notin temp_clear_flags)
        => loaded.memory.conversation_history = Logged(loaded.user_id)

----------------------------------------------------------------------------
(* Several plan executions of one Agent, interleaved at their awaits        *)
(* (main_gradio calls ag.run once per request on the shared agent)          *)

Sessions == {"s1", "s2"}
\* each session searches for its own keywords
D_search_for(s) ==
    Descriptor(FStr("find places"), FStr("maps_text_search"),
               FVal(PDict(<<Item("keywords",
                                 PStr(<<Lit(IF s = "s1" THEN "cafe" ELSE "museum")>>))>>)))
SessionPlans(s) ==
    {<<D_search_for(s)>>, <<D_search_for(s), D_weather>>, <<D_search_for(s), D_unknown>>,
     <<D_search_for(s), D_weather, D_weather>>, <<D_search_for(s), D_file>>}
\* the user_id the page hands to the request of a session: the id the browser
\* stored, or the initial "" of gr.State when the page has not set it yet
SessionUsers(s) == IF s = "s1" THEN {"u1", ""} ELSE {"u2"}

\* what the tool may return for the call of a resolved step: a text search
\* answers for the keywords it was given
OutputsFor(step) ==
    IF step.tool_name = "maps_text_search"
          /\ step.parameters.items[1].v
                = [t |-> "rstr", texts |-> <<[t |-> "text", fmt |-> "lit", s |-> "museum"]>>]
    THEN {MuseumHit, ApiError}
    ELSE ToolOutputs(step.tool_name)

\* variant: one StepContext object is shared by all executions
NewContext_Shared(ctxs) == 1

\* step_context = StepContext(): a new object, distinct from every existing one
NewContext(ctxs) == Cardinality(DOMAIN ctxs) + 1

InitConcurrent ==
    /\ EngineIdle
    /\ memory_store = << >>
    /\ MemoryIdle
    /\ ResolverIdle
    /\ sessions \in [Sessions -> [steps_data : UNION {SessionPlans(s) : s \in Sessions},
                                   strategy : {"fail_fast", "graceful_degrade"},
                                   steps : {<<>>}, pc : {"request"}, i : {0},
                                   step_context : {0}, resolved_step : {Idle},
                                   got : {NoResults},
                                   user_id : UNION {SessionUsers(s) : s \in Sessions},
                                   called : {<<>>}]]
    /\ \A s \in Sessions : /\ sessions[s].steps_data \in SessionPlans(s)
                            /\ sessions[s].user_id \in SessionUsers(s)
    /\ contexts = <<>>
    /\ environ = ""

\* the request handler of session s up to its call of ag.run: the user of the
\* request is written to the environment of the process
CRequest(s) ==
    /\ sessions[s].pc = "request"
    /\ environ' = IF sessions[s].user_id = "" THEN "anonymous" ELSE sessions[s].user_id
    /\ sessions' = [sessions EXCEPT ![s].pc = "plan"]
    /\ UNCHANGED <<contexts, evars, rvars, mvars>>

\* the run of session s up to the loop: plan_tasks, then StepContext()
CPlanTasks(s) ==
    /\ sessions[s].pc = "plan"
    /\ LET plan == plan_tasks(sessions[s].steps_data)
           id == NewContext(contexts)
       IN IF plan = <<>>
          THEN /\ sessions' = [sessions EXCEPT ![s].pc = "rejected"]
               /\ UNCHANGED contexts
          ELSE /\ sessions' = [sessions EXCEPT ![s].pc = "resolve", ![s].steps = plan,
                                                ![s].step_context = id]
               /\ contexts' = (id :> StepContext) @@ contexts
    /\ UNCHANGED <<environ, evars, rvars, mvars>>

\* where the loop of a run goes after a step failure
AfterFailure(run) == IF run.strategy = "fail_fast" THEN "aborted" ELSE "integrate"

CResolveStep(s) ==
    /\ sessions[s].pc = "resolve"
    /\ LET run == sessions[s]
           step == run.steps[run.i + 1]
           resolved_params == replace_placeholders(contexts[run.step_context].results,
                                                   step.parameters, run.i)
       IN IF IsErr(resolved_params)
          THEN sessions' = [sessions EXCEPT ![s].pc = AfterFailure(run)]
          ELSE sessions' = [sessions EXCEPT ![s].pc = "execute",
                                           ![s].resolved_step =
                                               [step EXCEPT !.parameters = resolved_params]]
    /\ UNCHANGED <<contexts, environ, evars, rvars, mvars>>

\* effective_uid = (user_id or os.environ.get("CURRENT_USER_ID") or "anonymous")
EffectiveUid(user_id, env) ==
    IF user_id # "" THEN user_id ELSE IF env # "" THEN env ELSE "anonymous"

CExecuteStep(s) ==
    /\ sessions[s].pc = "execute"
    /\ IF EarlyFailure(sessions[s].resolved_step) # Null
       THEN sessions' = [sessions EXCEPT ![s].pc = AfterFailure(sessions[s])]
       ELSE sessions' =
               [sessions EXCEPT
                   ![s].pc = "awaiting",
                   ![s].called =
                       Append(@, [tool |-> sessions[s].resolved_step.tool_name,
                                  parameters |->
                                      CallParams(sessions[s].resolved_step,
                                                 EffectiveUid(sessions[s].user_id, environ))])]
    /\ UNCHANGED <<contexts, environ, evars, rvars, mvars>>

CToolReturns(s) ==
    /\ sessions[s].pc = "awaiting"
    /\ LET run == sessions[s]
       IN \E raw \in OutputsFor(run.resolved_step) :
             /\ contexts' = [contexts EXCEPT ![run.step_context] =
                                 set_result(@, run.i, Recorded(raw, TRUE))]
             /\ sessions' = [sessions EXCEPT ![s].got = (run.i :> raw) @@ @,
                                              ![s].i = @ + 1,
                                              ![s].pc = IF run.i + 1 = Len(run.steps)
                                                        THEN "integrate" ELSE "resolve"]
    /\ UNCHANGED <<environ, evars, rvars, mvars>>

CToolRaises(s) ==
    /\ sessions[s].pc = "awaiting"
    /\ sessions' = [sessions EXCEPT ![s].pc = AfterFailure(sessions[s])]
    /\ UNCHANGED <<contexts, environ, evars, rvars, mvars>>

CIntegrate(s) ==
    /\ sessions[s].pc = "integrate"
    /\ sessions' = [sessions EXCEPT ![s].pc = "completed"]
    /\ UNCHANGED <<contexts, environ, evars, rvars, mvars>>

NextConcurrent ==
    \E s \in Sessions :
        \/ CRequest(s)
        \/ CPlanTasks(s)
        \/ CResolveStep(s)
        \/ CExecuteStep(s)
        \/ CToolReturns(s)
        \/ CToolRaises(s)
        \/ CIntegrate(s)

SpecConcurrent == InitConcurrent /\ [][NextConcurrent]_vars

\* the results session s recorded itself: what its own tool calls returned
OwnResults(s) ==
    [k \in DOMAIN sessions[s].got |-> Recorded(sessions[s].got[k], TRUE)]
Started(s) == sessions[s].step_context # 0

\* C17: executions that have started use distinct Step Contexts; the results in
\* the context of an execution are exactly the results of its own tool calls,
\* whatever the other executions record meanwhile; and the parameters it hands
\* to a tool are its step's parameters resolved against its own results.
C17_ContextsIsolated ==
    \A s \in Sessions :
        Started(s) =>
            /\ \A t \in Sessions \ {s} : Started(t) =>
                  sessions[t].step_context # sessions[s].step_context
            /\ contexts[sessions[s].step_context].results = OwnResults(s)
            /\ sessions[s].pc \in {"execute", "awaiting"} =>
                  sessions[s].resolved_step.parameters =
                      replace_placeholders(OwnResults(s),
                                           sessions[s].steps[sessions[s].i + 1].parameters,
                                           sessions[s].i)

C17_Witness ==
    /\ \A s \in Sessions : sessions[s].pc = "awaiting" /\ sessions[s].i = 1
    /\ sessions["s1"].got[0] = SearchHit
    /\ sessions["s2"].got[0] = MuseumHit
    /\ sessions["s1"].resolved_step.parameters.items[1].v.texts[2] = StrOf(VNum(116))
    /\ sessions["s2"].resolved_step.parameters.items[1].v.texts[2] = StrOf(VNum(121))

----------------------------------------------------------------------------
(* Properties of placeholder resolution                                     *)

\* C4: a placeholder recognised by the pattern that references step j >= i
\* (the current step or a later one) makes the replacer raise the
\* forward-reference error, whatever path it carries and whatever results
\* are recorded; it never yields a text.
C4_ForwardReferenceFails ==
    (replaced # Pending /\ PatternMatches(tail) /\ step_idx >= current_step)
        => replaced = Err("forward_reference")

C4_Witness ==
    /\ replaced = Err("forward_reference")
    /\ step_idx = current_step
    /\ step_idx \in DOMAIN ctx_results
    /\ Group2(tail) # <<>>

\* the constructs C5 speaks about: parentheses, arithmetic operators and
\* comparison operators anywhere in the expression (brackets and digits of an
\* index are not among them)
ContainsForbidden(path) ==
    \/ \E p \in 1..Len(path) : path[p] \in {"(", ")", "+", "-", "*", "/", "%", "<", ">"}
    \/ \E p \in 1..(Len(path) - 1) : path[p] = "=" /\ path[p + 1] = "="

\* C5 (as claimed): a placeholder of an earlier step with a recorded result
\* whose expression contains a forbidden construct always fails with the
\* unsupported-expression error.
C5_ForbiddenAlwaysRejected ==
    (/\ replaced # Pending
     /\ PatternMatches(tail)
     /\ step_idx < current_step
     /\ step_idx \in DOMAIN ctx_results
     /\ ContainsForbidden(Group2(tail)))
        => replaced \in {Err("unsupported_method_call"), Err("unsupported_expression")}

\* C11 (as claimed): two resolutions of the same placeholder with equal recorded
\* results and the same current step index give the same output, or fail with
\* the same error.
C11_ResolutionDeterministic ==
    (replaced # Pending /\ replaced_again # Pending) => replaced_again = replaced

\* a path made of identifiers, dots and bracketed indices only, with a segment in it
PlainPath(path) ==
    /\ \A p \in 1..Len(path) : path[p] \in WordChars \cup {".", "[", "]"}
    /\ SplitPath(path, <<>>, <<>>) # <<>>

\* the walk as C13 words it: an identifier is a key looked up in a mapping, digits
\* are an index looked up in a sequence, anything not found ends the walk
RECURSIVE PlainWalk(_, _)
PlainWalk(v, parts) ==
    IF parts = <<>> THEN v
    ELSE LET part == Head(parts)
             nxt == IF IsDigit(part)
                    THEN IF IsList(v) /\ IntOf(part) < Len(v.l) THEN v.l[IntOf(part) + 1] ELSE Null
                    ELSE IF IsDict(v) /\ part \in DOMAIN v.d THEN v.d[part] ELSE Null
         IN IF nxt = Null THEN Null ELSE PlainWalk(nxt, Tail(parts))

\* no identifier of the path is applied to a value that is not a mapping
RECURSIVE OnMappings(_, _)
OnMappings(v, parts) ==
    \/ parts = <<>>
    \/ LET part == Head(parts)
       IN IF IsDigit(part)
          THEN (IsList(v) /\ IntOf(part) < Len(v.l)) => OnMappings(v.l[IntOf(part) + 1], Tail(parts))
          ELSE IsDict(v) /\ (part \in DOMAIN v.d => OnMappings(v.d[part], Tail(parts)))

TextOrEmpty(v) == IF v = Null THEN EmptyText ELSE StrOf(v)

\* a recognised placeholder of an earlier step that has a recorded result
ResolvedEarlier ==
    /\ replaced # Pending
    /\ PatternMatches(tail)
    /\ step_idx < current_step
    /\ step_idx \in DOMAIN ctx_results

\* C13 (as claimed): a plain path is walked segment by segment through the
\* recorded payload and the placeholder becomes the text of the value reached,
\* or the empty string when a key is not in the payload or an index is out of
\* range.
C13_PathWalkedOrEmpty ==
    (ResolvedEarlier /\ PlainPath(Group2(tail))) =>
        replaced = TextOrEmpty(PlainWalk(ctx_results[step_idx],
                                         SplitPath(Group2(tail), <<>>, <<>>)))

\* C13 (amended): a plain path never raises; the payload is first seen through
\* the results / paths / pois aliasing when the first segment is one of these
\* names and is absent from it; and when no identifier of the path falls on a
\* value that is not a mapping, the placeholder becomes the text of the value
\* the segment-by-segment walk reaches, or the empty string when a key is not
\* found or an index is out of range.
C13_AliasedPathWalkedOrEmpty ==
    (ResolvedEarlier /\ PlainPath(Group2(tail))) =>
        LET parts == SplitPath(Group2(tail), <<>>, <<>>)
            seen == CompatWrap(ctx_results[step_idx], parts[1])
        IN /\ ~IsErr(replaced)
           /\ OnMappings(seen, parts) => replaced = TextOrEmpty(PlainWalk(seen, parts))

C13_Witness ==
    /\ tail = TailPoisLng
    /\ step_idx = 0
    /\ current_step = 1
    /\ ctx_results = (0 :> SearchHit)
    /\ replaced = StrOf(VNum(116))

\* a recognised placeholder of an earlier step index that has no recorded result
MissingRef(leaf) ==
    /\ IsBrace(leaf)
    /\ PatternMatches(leaf.tail)
    /\ leaf.idx < current_step
    /\ leaf.idx \notin DOMAIN ctx_results
\* a placeholder that raises when resolved by itself: a reference to the current
\* or a later step, or a path that resolve_path refuses
RaisesAlone(leaf) ==
    /\ IsBrace(leaf)
    /\ PatternMatches(leaf.tail)
    /\ \/ leaf.idx >= current_step
       \/ /\ leaf.idx \in DOMAIN ctx_results
          /\ Group2(leaf.tail) # <<>>
          /\ IsErr(resolve_path(ctx_results[leaf.idx], Group2(leaf.tail)))
\* what a leaf becomes when it is resolved by itself
ResolvedAlone(leaf) ==
    IF "k" \in DOMAIN leaf THEN SubToken(ctx_results, current_step, leaf) ELSE leaf

RECURSIVE Substituted(_, _)
Substituted(orig, new) ==
    CASE orig.t = "pstr" ->
            /\ new.t = "rstr"
            /\ Len(new.texts) = Len(orig.toks)
            /\ \A k \in 1..Len(orig.toks) :
                  new.texts[k] = SubToken(ctx_results, current_step, orig.toks[k])
      [] orig.t = "pdict" ->
            /\ new.t = "pdict"
            /\ Len(new.items) = Len(orig.items)
            /\ \A k \in 1..Len(orig.items) :
                  /\ new.items[k].key = orig.items[k].key
                  /\ Substituted(orig.items[k].v, new.items[k].v)
      [] orig.t = "plist" ->
            /\ new.t = "plist"
            /\ Len(new.l) = Len(orig.l)
            /\ \A k \in 1..Len(orig.l) : Substituted(orig.l[k], new.l[k])
      [] OTHER -> new = orig

\* C22: a replace_placeholders call that returns has descended through every
\* nested mapping and sequence of the parameters: every placeholder of every
\* string, at any depth and several per string, is substituted, and values
\* that are not strings are returned unchanged
C22_ResolutionRecurses ==
    (replaced_params # Pending /\ ~IsErr(replaced_params)) =>
        Substituted(raw_params, replaced_params)

\* "near {b1}/{b2}" has both placeholders substituted, the string inside the
\* mapping inside the sequence is substituted, the number next to it is kept
C22_Witness ==
    /\ replaced_params # Pending
    /\ ~IsErr(replaced_params)
    /\ raw_params.items[1].v.toks[2].tail = TailPoisLng
    /\ raw_params.items[1].v.toks[4].tail = << >>
    /\ replaced_params.items[1].v.texts[2] = StrOf(VNum(116))
    /\ replaced_params.items[1].v.texts[4] = JsonDumps(SearchHit)
    /\ raw_params.items[2].v.l[1].items[1].v.toks[1].tail = TailPoisLng
    /\ replaced_params.items[2].v.l[1].items[1].v.texts[1] = StrOf(VNum(116))
    /\ replaced_params.items[2].v.l[2] = VNum(3)

\* what one (step, result) pair gives to a category of the manifest: the
\* entries under the expected field of a payload of the category's tool
PoisOf(pair) ==
    IF pair[1].tool_name = "maps_text_search" /\ IsDict(pair[2]) /\ HasKey(pair[2], K_pois)
    THEN Take(pair[2].d[K_pois].l, 5) ELSE <<>>
ForecastsOf(pair) ==
    IF pair[1].tool_name = "maps_weather" /\ IsDict(pair[2]) /\ HasKey(pair[2], K_forecasts)
    THEN pair[2].d[K_forecasts].l ELSE <<>>
FilesOf(pair) ==
    IF pair[1].tool_name = "file_tool" /\ IsStr(pair[2]) /\ pair[2].s = HtmlPath
    THEN <<[type |-> "HTML", path |-> HtmlPath]>> ELSE <<>>

\* C24: each category of the manifest lists the artifacts of the successful
\* steps in the order of the steps that produced them; a payload without the
\* expected field (a weather result without forecasts, a search result
\* without pois) contributes nothing, and the extraction still returns
C24_ManifestInStepOrder ==
    (pc = "completed") =>
        /\ extracted # NoManifest
        /\ extracted.pois = Concat([k \in 1..Len(steps_results) |-> PoisOf(steps_results[k])])
        /\ extracted.weather_data =
               Concat([k \in 1..Len(steps_results) |-> ForecastsOf(steps_results[k])])
        /\ extracted.file_paths =
               Concat([k \in 1..Len(steps_results) |-> FilesOf(steps_results[k])])

\* two searches found different places, then the weather call answered with an
\* API error: the places are listed in step order, the weather list is empty
C24_Witness ==
    /\ pc = "completed"
    /\ Len(steps_results) = 3
    /\ steps_results[1][2] = SearchHit
    /\ steps_results[2][2] = MuseumHit
    /\ steps_results[3][1].tool_name = "maps_weather"
    /\ steps_results[3][2] = ApiError
    /\ extracted.pois = SearchHit.d[K_pois].l \o MuseumHit.d[K_pois].l
    /\ extracted.weather_data = <<>>

\* step k has placeholders, its resolution returns, and each of its
\* placeholders has become the empty string
AllPlaceholdersEmpty(k) ==
    LET leaves == Leaves(steps[k + 1].parameters)
        res == ResolvedParams(k)
    IN /\ \E n \in 1..Len(leaves) : IsBrace(leaves[n])
       /\ ~IsErr(res)
       /\ LET texts == Leaves(res)
          IN \A n \in 1..Len(leaves) : IsBrace(leaves[n]) => texts[n] = EmptyText

\* C25: a step of a registered tool whose placeholders all resolved to the
\* empty string is executed like any other: once the loop is past its
\* execute_step call, its tool has been invoked with the parameters that hold
\* the empty values; nothing refuses the call beforehand
C25_EmptyValuesStillExecuted ==
    \A k \in 0..(Len(steps) - 1) :
        (PastExecution(k) /\ steps[k + 1].tool_name \in Registry /\ AllPlaceholdersEmpty(k))
            => \E n \in 1..Len(invocations) :
                  /\ invocations[n].step = k
                  /\ invocations[n].parameters =
                        CallParams([steps[k + 1] EXCEPT !.parameters = ResolvedParams(k)],
                                   CurrentUser)

\* the search answered with an API error, so "near {step_0_result.pois[0].lng}"
\* became "near " and the weather tool was called with it and returned
C25_Witness ==
    /\ pc = "completed"
    /\ Len(steps) >= 2
    /\ 0 \in DOMAIN step_context.results
    /\ step_context.results[0] = ApiError
    /\ steps[2].tool_name = "maps_weather"
    /\ AllPlaceholdersEmpty(1)
    /\ 1 \in DOMAIN returned
    /\ returned[1].kind = "returned"
    /\ invocations[2].parameters.items[1].v.texts = <<SubToken(NoResults, 0, Lit("near ")), EmptyText>>

\* C26 (as claimed): "{step_N_result[k].field}" of an earlier step N whose
\* recorded result is a list with an element k that is a mapping holding the
\* field is replaced by the text of that field of element k
C26_DirectIndexResolved ==
    (/\ replaced # Pending
     /\ tail = TailFirstE
     /\ step_idx < current_step
     /\ step_idx \in DOMAIN ctx_results
     /\ IsList(ctx_results[step_idx])
     /\ Len(ctx_results[step_idx].l) > DigitVal(tail[2])
     /\ HasKey(ctx_results[step_idx].l[DigitVal(tail[2]) + 1], <<tail[5]>>))
        => replaced = StrOf(ctx_results[step_idx].l[DigitVal(tail[2]) + 1].d[<<tail[5]>>])

----------------------------------------------------------------------------
(* Properties of the user_id injection across sessions                      *)

\* the user a session runs for: the id of its request, "anonymous" when the
\* request has none
OwnUser(s) == IF sessions[s].user_id = "" THEN "anonymous" ELSE sessions[s].user_id
\* the value a call was given for the key user_id
UserIdOf(params) ==
    params.items[CHOOSE n \in 1..Len(params.items) : params.items[n].key = "user_id"].v

\* C28 (as claimed): with the sessions of two different users running
\* concurrently, every call of file_tool or visualization_tool made by a
\* session carries the user_id of that session
C28_InjectedUserIsOwn ==
    \A s \in Sessions :
        \A n \in 1..Len(sessions[s].called) :
            sessions[s].called[n].tool \in UserIdTools
                => UserIdOf(sessions[s].called[n].parameters) = VStr(OwnUser(s))

====
